---------------------------- MODULE Spec2Model ----------------------------
(***************************************************************************)
(* Model of src/Sonnet4/complete_pdf_extrator.py: the orchestrator         *)
(* CompletePDFExtractor.extract_pdf_with_vision and the record parser      *)
(* CompletePDFExtractor.parse_page_content_to_json.                        *)
(*                                                                         *)
(* A Python str is a sequence of one-character strings, so that the        *)
(* regular expressions, str.strip, str.split, str.replace and float() are  *)
(* computed character by character as the interpreter computes them.       *)
(***************************************************************************)
EXTENDS Integers, Sequences, FiniteSets, TLC

(***************************************************************************)
(* Characters                                                              *)
(***************************************************************************)
Digits == {"0", "1", "2", "3", "4", "5", "6", "7", "8", "9"}

LowerSeq == <<"a", "b", "c", "d", "e", "f", "g", "h", "i", "j", "k", "l", "m",
              "n", "o", "p", "q", "r", "s", "t", "u", "v", "w", "x", "y", "z">>

UpperSeq == <<"A", "B", "C", "D", "E", "F", "G", "H", "I", "J", "K", "L", "M",
              "N", "O", "P", "Q", "R", "S", "T", "U", "V", "W", "X", "Y", "Z">>

Letters == {LowerSeq[i] : i \in 1..26} \cup {UpperSeq[i] : i \in 1..26}

\* the characters \w matches
WordChars == Letters \cup Digits \cup {"_"}

\* the characters str.strip() removes
Whitespace == {" ", "\n", "\t", "\r"}

\* the lower-case form of a character (re.IGNORECASE compares these)
Lower(c) ==
    IF \E i \in 1..26 : c = UpperSeq[i]
    THEN LowerSeq[CHOOSE j \in 1..26 : c = UpperSeq[j]]
    ELSE c

(***************************************************************************)
(* Regular expressions: a pattern is a sequence of nodes.                  *)
(*   lit   : a literal string (compared without case under IGNORECASE)     *)
(*   cls   : a character class repeated min..max times (max unbounded     *)
(*           when plus), greedy or lazy                                    *)
(*   open  : start of capturing group g                                    *)
(*   close : end of capturing group g                                      *)
(*   alt   : (?:a|b)                                                       *)
(* The matcher takes what Python's backtracking takes: of the counts of a  *)
(* repetition after which the rest of the pattern matches, the largest     *)
(* when greedy and the smallest when lazy; of an alternation the left      *)
(* branch when the rest matches after it; of a search the leftmost start.  *)
(***************************************************************************)
Cls(kind, set, min, max, plus, greedy) ==
    [t |-> "cls", kind |-> kind, set |-> set, min |-> min, max |-> max,
     plus |-> plus, greedy |-> greedy]

\* a literal string
Lits(s) == <<[t |-> "lit", s |-> s, icase |-> FALSE]>>

\* a literal string under re.IGNORECASE
LitsI(s) == <<[t |-> "lit", s |-> s, icase |-> TRUE]>>

\* one literal character
Lit(c) == [t |-> "lit", s |-> <<c>>, icase |-> FALSE]

\* X+ and X+? for a class X
Plus(kind, set) == Cls(kind, set, 1, 1, TRUE, TRUE)

PlusLazy(kind, set) == Cls(kind, set, 1, 1, TRUE, FALSE)

\* X{n}
Times(kind, set, n) == Cls(kind, set, n, n, FALSE, TRUE)

Open(g) == [t |-> "open", g |-> g]

Close(g) == [t |-> "close", g |-> g]

Alt(a, b) == [t |-> "alt", a |-> a, b |-> b]

\* whether character c is in the class of node n:
\* "dot" is . (anything but a newline), "any" is . under re.DOTALL,
\* "word" is \w, "set" is a bracket expression
InClass(n, c) ==
    CASE n.kind = "dot"  -> c # "\n"
      [] n.kind = "any"  -> TRUE
      [] n.kind = "word" -> c \in WordChars
      [] n.kind = "set"  -> c \in n.set

\* whether the literal of node n stands at pos of s
LitAt(n, s, pos) ==
    /\ pos + Len(n.s) - 1 <= Len(s)
    /\ \A i \in 1..Len(n.s) :
           IF n.icase THEN Lower(s[pos + i - 1]) = Lower(n.s[i])
           ELSE s[pos + i - 1] = n.s[i]

NoMatch == [ok |-> FALSE]

\* the number of characters of s from pos on that are in the class of n,
\* counted up to most
RunUpTo(n, s, pos, most) ==
    IF most <= 0 THEN 0
    ELSE CHOOSE j \in 0..most :
             /\ \A i \in 0..(j - 1) : InClass(n, s[pos + i])
             /\ (j = most \/ ~InClass(n, s[pos + j]))

\* the same, counted up to the node's maximum
RunLen(n, s, pos) ==
    RunUpTo(n, s, pos,
            IF n.plus \/ n.max > Len(s) - pos + 1 THEN Len(s) - pos + 1
            ELSE n.max)

\* a position of the matcher: node k of pattern re is next, at pos of the
\* text, with the groups' spans caps
Config(re, k, pos, caps) == [re |-> re, k |-> k, pos |-> pos, caps |-> caps]

\* the positions tried after a repetition n that can take run characters:
\* one per count, the largest first when greedy, the smallest when lazy
ClsSteps(re, k, pos, caps, n, run) ==
    IF run < n.min THEN << >>
    ELSE [i \in 1..(run - n.min + 1) |->
            Config(re, k + 1,
                   pos + (IF n.greedy THEN run - i + 1 ELSE n.min + i - 1),
                   caps)]

\* the positions the matcher tries after node n = re[k] at pos, in the
\* order Python's backtracking tries them
NodeSteps(re, k, s, pos, caps, n) ==
    CASE n.t = "lit" ->
           IF LitAt(n, s, pos)
           THEN <<Config(re, k + 1, pos + Len(n.s), caps)>>
           ELSE << >>
      [] n.t = "open" ->
           <<Config(re, k + 1, pos, [caps EXCEPT ![n.g] = <<pos, 0>>])>>
      [] n.t = "close" ->
           <<Config(re, k + 1, pos,
                    [caps EXCEPT ![n.g] = <<caps[n.g][1], pos>>])>>
      [] n.t = "alt" ->
           <<Config(n.a \o SubSeq(re, k + 1, Len(re)), 1, pos, caps),
             Config(n.b \o SubSeq(re, k + 1, Len(re)), 1, pos, caps)>>
      [] n.t = "cls" -> ClsSteps(re, k, pos, caps, n, RunLen(n, s, pos))

Steps(re, k, s, pos, caps) == NodeSteps(re, k, s, pos, caps, re[k])

\* the first of a sequence of match results that succeeded, or NoMatch
FirstOk(results) ==
    IF \E i \in 1..Len(results) : results[i].ok
    THEN results[CHOOSE i \in 1..Len(results) :
                     /\ results[i].ok
                     /\ \A j \in 1..(i - 1) : ~results[j].ok]
    ELSE NoMatch

RECURSIVE MatchFrom(_, _, _, _, _)
RECURSIVE TrySteps(_, _)

\* the first of the positions steps from which the pattern matches
TrySteps(steps, s) ==
    FirstOk([i \in 1..Len(steps) |->
               MatchFrom(steps[i].re, steps[i].k, s, steps[i].pos,
                         steps[i].caps)])

\* re from node k on matched at pos of s: the end of the match and the
\* groups' spans <<from, to>> (to exclusive), or NoMatch
MatchFrom(re, k, s, pos, caps) ==
    IF k > Len(re) THEN [ok |-> TRUE, end |-> pos, caps |-> caps]
    ELSE TrySteps(Steps(re, k, s, pos, caps), s)

\* a match result with the position it started at
Located(r, start) ==
    IF r.ok
    THEN [ok |-> TRUE, start |-> start, end |-> r.end, caps |-> r.caps]
    ELSE NoMatch

\* the result of matching re at each position of s from start on; at
\* the start of a match no group has participated
MatchesFrom(re, s, start) ==
    [i \in 1..(Len(s) + 2 - start) |->
        Located(MatchFrom(re, 1, s, start + i - 1,
                          [g \in 1..5 |-> <<0, 0>>]), start + i - 1)]

\* re.search from position start on: the leftmost match
SearchFrom(re, s, start) == FirstOk(MatchesFrom(re, s, start))

\* re.search(re, s)
Search(re, s) == SearchFrom(re, s, 1)

\* m.group(g); a group that did not participate is the empty string, as in
\* the tuples of re.findall
Group(m, s, g) ==
    IF m.caps[g][2] = 0 THEN << >>
    ELSE SubSeq(s, m.caps[g][1], m.caps[g][2] - 1)

RECURSIVE FindAllFrom(_, _, _)
RECURSIVE FindAllAfter(_, _, _)

\* the match m, when there is one, followed by the matches after it
FindAllAfter(re, s, m) ==
    IF ~m.ok THEN << >>
    ELSE <<m>> \o FindAllFrom(re, s,
                              IF m.end > m.start THEN m.end ELSE m.end + 1)

\* the non-overlapping matches of re in s from start on, left to right
FindAllFrom(re, s, start) == FindAllAfter(re, s, SearchFrom(re, s, start))

\* re.findall(re, s), as the sequence of matches
FindAll(re, s) == FindAllFrom(re, s, 1)

(***************************************************************************)
(* str methods                                                             *)
(***************************************************************************)
\* s between its first and its last position in keep
Between(s, keep) ==
    IF keep = {} THEN << >>
    ELSE SubSeq(s, CHOOSE i \in keep : \A j \in keep : i <= j,
                CHOOSE i \in keep : \A j \in keep : j <= i)

\* s.strip()
Strip(s) == Between(s, {i \in 1..Len(s) : s[i] \notin Whitespace})

\* s.replace(c, '') for a single character c
Remove(s, c) == SelectSeq(s, LAMBDA x : x # c)

\* the k-th smallest position of the set at of positions of s, with 0
\* before the first and Len(s) + 1 after the last
NthOf(s, at, k) ==
    IF k = 0 THEN 0
    ELSE IF k > Cardinality(at) THEN Len(s) + 1
    ELSE CHOOSE p \in at : Cardinality({q \in at : q < p}) = k - 1

\* the pieces of s between the positions at
SplitAt(s, at) ==
    [k \in 1..(Cardinality(at) + 1) |->
        SubSeq(s, NthOf(s, at, k - 1) + 1, NthOf(s, at, k) - 1)]

\* s.split(sep) for a single character sep: the pieces between the
\* occurrences of sep, one more than there are occurrences
Split(s, sep) == SplitAt(s, {i \in 1..Len(s) : s[i] = sep})

\* xs[1:-1]
Inner(xs) == IF Len(xs) <= 2 THEN << >> ELSE SubSeq(xs, 2, Len(xs) - 1)

\* xs[2:]
From2(xs) == IF Len(xs) <= 2 THEN << >> ELSE SubSeq(xs, 3, Len(xs))

DigitSeq == <<"0", "1", "2", "3", "4", "5", "6", "7", "8", "9">>

RECURSIVE StrNat(_)
\* str(n) for n >= 0
StrNat(n) ==
    IF n < 10 THEN <<DigitSeq[n + 1]>>
    ELSE Append(StrNat(n \div 10), DigitSeq[(n % 10) + 1])

(***************************************************************************)
(* float()                                                                 *)
(***************************************************************************)
IsDigits(s) == \A i \in 1..Len(s) : s[i] \in Digits

RECURSIVE NatOf(_)
\* the number a string of digits denotes (0 for the empty string)
NatOf(s) ==
    IF s = << >> THEN 0
    ELSE 10 * NatOf(SubSeq(s, 1, Len(s) - 1))
             + (CHOOSE i \in 1..10 : DigitSeq[i] = s[Len(s)]) - 1

\* the position of the first occurrence of a character of cs in s, or 0
FirstOf(s, cs) ==
    IF \E i \in 1..Len(s) : s[i] \in cs
    THEN CHOOSE i \in 1..Len(s) :
             s[i] \in cs /\ \A j \in 1..(i - 1) : s[j] \notin cs
    ELSE 0

\* s before and after position p; all of s and nothing when p = 0
Before(s, p) == IF p = 0 THEN s ELSE SubSeq(s, 1, p - 1)

After(s, p) == IF p = 0 THEN << >> ELSE SubSeq(s, p + 1, Len(s))

IsNeg(s) == s # << >> /\ s[1] = "-"

\* s without its sign
Unsigned(s) ==
    IF s # << >> /\ s[1] \in {"+", "-"} THEN Tail(s) ELSE s

\* an underscore is accepted only between two digits, and is then ignored
UnderscoresOk(s) ==
    \A i \in 1..Len(s) :
        s[i] = "_" => /\ 1 < i /\ i < Len(s)
                      /\ s[i - 1] \in Digits /\ s[i + 1] \in Digits

RECURSIVE Normal(_, _)
\* mantissa m and decimal exponent e without trailing zeros in m
Normal(m, e) ==
    IF m = 0 THEN <<0, 0>>
    ELSE IF m % 10 = 0 THEN Normal(m \div 10, e + 1)
    ELSE <<m, e>>

\* a float: sign, mantissa m and decimal exponent e (the value is
\* m * 10^e), or inf or nan
PyFloat(neg, kind, m, e) ==
    [ty |-> "float", neg |-> neg, kind |-> kind, m |-> m, e |-> e]

\* the finite float of the pair n of a mantissa and an exponent
Finite(neg, n) == PyFloat(neg, "finite", n[1], n[2])

LowerStr(s) == [i \in 1..Len(s) |-> Lower(s[i])]

\* the float of integer digits ip, fraction digits fp and exponent digits
\* exDigits (exNeg: the exponent is negative; hasExp: there is an e)
FloatValue(neg, ip, fp, hasExp, exNeg, exDigits) ==
    IF /\ IsDigits(ip) /\ IsDigits(fp) /\ Len(ip) + Len(fp) > 0
       /\ (hasExp => IsDigits(exDigits) /\ exDigits # << >>)
    THEN [ok |-> TRUE,
          v |-> Finite(neg,
                       Normal(NatOf(ip \o fp),
                              (IF exNeg THEN 0 - NatOf(exDigits)
                               ELSE NatOf(exDigits)) - Len(fp)))]
    ELSE [ok |-> FALSE]

\* num is split at its first point
FloatParts(neg, num, hasExp, ex) ==
    FloatValue(neg, Before(num, FirstOf(num, {"."})),
               After(num, FirstOf(num, {"."})), hasExp, IsNeg(ex),
               Unsigned(ex))

\* s is split at its first e or E
FloatDecimal(neg, s) ==
    FloatParts(neg, Before(s, FirstOf(s, {"e", "E"})),
               FirstOf(s, {"e", "E"}) # 0, After(s, FirstOf(s, {"e", "E"})))

\* the float of s without sign
FloatUnsigned(neg, s) ==
    IF LowerStr(s) \in {<<"i", "n", "f">>,
                        <<"i", "n", "f", "i", "n", "i", "t", "y">>}
    THEN [ok |-> TRUE, v |-> PyFloat(neg, "inf", 0, 0)]
    ELSE IF LowerStr(s) = <<"n", "a", "n">>
    THEN [ok |-> TRUE, v |-> PyFloat(neg, "nan", 0, 0)]
    ELSE IF ~UnderscoresOk(s) THEN [ok |-> FALSE]
    ELSE FloatDecimal(neg, Remove(s, "_"))

\* the float of s with its sign
FloatSigned(s) == FloatUnsigned(IsNeg(s), Unsigned(s))

\* float(s): [ok |-> TRUE, v |-> the float], or [ok |-> FALSE] where
\* Python raises ValueError.  Accepted, as by Python: surrounding
\* whitespace, a sign, inf / infinity / nan in any case, and a decimal
\* number (digits with at most one point and at least one digit, an
\* underscore allowed between two digits) with an optional exponent
Float(s) == FloatSigned(Strip(s))

(***************************************************************************)
(* Python values held by the record: str, float, None, dict                *)
(***************************************************************************)
PyStr(s) == [ty |-> "str", s |-> s]

None == [ty |-> "none"]

\* {}
EmptyDict == [k \in {} |-> None]

\* d[k] = v
Set(d, k, v) == (k :> v) @@ d

(***************************************************************************)
(* The literal texts of the patterns                                       *)
(***************************************************************************)
\* # Document Analysis - 
S_doc_title ==
    <<"#", " ", "D", "o", "c", "u", "m", "e", "n", "t", " ", "A", "n",
      "a", "l", "y", "s", "i", "s", " ", "-", " ">>

\* **Title:** 
S_title ==
    <<"*", "*", "T", "i", "t", "l", "e", ":", "*", "*", " ">>

\* QC Verified Protocols/
S_qc_open ==
    <<"Q", "C", " ", "V", "e", "r", "i", "f", "i", "e", "d", " ", "P",
      "r", "o", "t", "o", "c", "o", "l", "s", "/">>

\*  - Document Status
S_qc_close ==
    <<" ", "-", " ", "D", "o", "c", "u", "m", "e", "n", "t", " ", "S",
      "t", "a", "t", "u", "s">>

\* Document Status: 
S_status ==
    <<"D", "o", "c", "u", "m", "e", "n", "t", " ", "S", "t", "a", "t",
      "u", "s", ":", " ">>

\* **
S_bold ==
    <<"*", "*">>

\* **Wavelength Combination:** 
S_wl_comb ==
    <<"*", "*", "W", "a", "v", "e", "l", "e", "n", "g", "t", "h", " ",
      "C", "o", "m", "b", "i", "n", "a", "t", "i", "o", "n", ":", "*",
      "*", " ">>

\* **Instrument:** 
S_instr ==
    <<"*", "*", "I", "n", "s", "t", "r", "u", "m", "e", "n", "t", ":",
      "*", "*", " ">>

\* **ROM:** 
S_rom ==
    <<"*", "*", "R", "O", "M", ":", "*", "*", " ">>

\* **Start Read:** 
S_start_read ==
    <<"*", "*", "S", "t", "a", "r", "t", " ", "R", "e", "a", "d", ":",
      "*", "*", " ">>

\* **Mean Temperature:** 
S_temp ==
    <<"*", "*", "M", "e", "a", "n", " ", "T", "e", "m", "p", "e", "r",
      "a", "t", "u", "r", "e", ":", "*", "*", " ">>

\* °C
S_degC ==
    <<"°", "C">>

\* **Read By:** 
S_operator ==
    <<"*", "*", "R", "e", "a", "d", " ", "B", "y", ":", "*", "*", " ">>

\* - **
S_well_open ==
    <<"-", " ", "*", "*">>

\* **: 
S_well_close ==
    <<"*", "*", ":", " ">>

\*  Std - 
S_std ==
    <<" ", "S", "t", "d", " ", "-", " ">>

\*  (Reduced: 
S_reduced_open ==
    <<" ", "(", "R", "e", "d", "u", "c", "e", "d", ":", " ">>

\* ) - Date: 
S_reduced_close ==
    <<")", " ", "-", " ", "D", "a", "t", "e", ":", " ">>

\*  - 
S_sep ==
    <<" ", "-", " ">>

\* Date: No Data
S_no_data ==
    <<"D", "a", "t", "e", ":", " ", "N", "o", " ", "D", "a", "t", "a">>

\* ## Standards Table\n
S_table ==
    <<"#", "#", " ", "S", "t", "a", "n", "d", "a", "r", "d", "s", " ",
      "T", "a", "b", "l", "e", "\n">>

\* \n\n
S_blank ==
    <<"\n", "\n">>

\* ## Key Calculations\n**
S_key_calc ==
    <<"#", "#", " ", "K", "e", "y", " ", "C", "a", "l", "c", "u", "l",
      "a", "t", "i", "o", "n", "s", "\n", "*", "*">>

(***************************************************************************)
(* The patterns of parse_page_content_to_json                              *)
(***************************************************************************)
\* [\d\.]
NumDot == Digits \cup {"."}

\* [\d\.e,]
NumChars == Digits \cup {".", "e", ","}

\* [\d\-: ]
DateChars == Digits \cup {"-", ":", " "}

\* (.+)
CaptureRest == <<Open(1), Plus("dot", {}), Close(1)>>

\* # Document Analysis - (.+)
Re_doc_title == Lits(S_doc_title) \o CaptureRest

\* \*\*Title:\*\* (.+)
Re_title == Lits(S_title) \o CaptureRest

\* QC Verified Protocols/(.+?) - Document Status
Re_qc ==
    Lits(S_qc_open) \o <<Open(1), PlusLazy("dot", {}), Close(1)>>
        \o Lits(S_qc_close)

\* Document Status: (\w+)
Re_status == Lits(S_status) \o <<Open(1), Plus("word", {}), Close(1)>>

\* \*\*(\d{2}-[A-Za-z]{3}-\d{4} \d{2}:\d{2}:\d{2})\*\*
Re_date ==
    Lits(S_bold)
        \o <<Open(1), Times("set", Digits, 2), Lit("-"),
             Times("set", Letters, 3), Lit("-"), Times("set", Digits, 4),
             Lit(" "), Times("set", Digits, 2), Lit(":"),
             Times("set", Digits, 2), Lit(":"), Times("set", Digits, 2),
             Close(1)>>
        \o Lits(S_bold)

\* \*\*Wavelength Combination:\*\* (\w+)
Re_wl_comb == Lits(S_wl_comb) \o <<Open(1), Plus("word", {}), Close(1)>>

\* \*\*Instrument:\*\* (.+)
Re_instr == Lits(S_instr) \o CaptureRest

\* \*\*ROM:\*\* (.+)
Re_rom == Lits(S_rom) \o CaptureRest

\* \*\*Start Read:\*\* (.+)
Re_start_read == Lits(S_start_read) \o CaptureRest

\* \*\*Mean Temperature:\*\* ([\d\.]+)°C
Re_temp ==
    Lits(S_temp) \o <<Open(1), Plus("set", NumDot), Close(1)>>
        \o Lits(S_degC)

\* \*\*Read By:\*\* (.+)   with re.IGNORECASE
Re_operator == LitsI(S_operator) \o CaptureRest

\* - \*\*(A\d)\*\*: ([\d\.]+) Std - ([\d\.e,]+) \(Reduced: ([\d\.e,]+)\) - Date: ([\d\-: ]+)
Re_stds ==
    Lits(S_well_open)
        \o <<Open(1), Lit("A"), Times("set", Digits, 1), Close(1)>>
        \o Lits(S_well_close)
        \o <<Open(2), Plus("set", NumDot), Close(2)>>
        \o Lits(S_std)
        \o <<Open(3), Plus("set", NumChars), Close(3)>>
        \o Lits(S_reduced_open)
        \o <<Open(4), Plus("set", NumChars), Close(4)>>
        \o Lits(S_reduced_close)
        \o <<Open(5), Plus("set", DateChars), Close(5)>>

\* - \*\*(B\d)\*\*: (.+?) - (?:<value branch>|Date: No Data)
\* where the value branch is
\* (?P<val>[\d\.e,]+) \(Reduced: (?P<red>[\d\.e,]+)\) - Date: (?P<date>[\d\-: ]+)
Re_controls ==
    Lits(S_well_open)
        \o <<Open(1), Lit("B"), Times("set", Digits, 1), Close(1)>>
        \o Lits(S_well_close)
        \o <<Open(2), PlusLazy("dot", {}), Close(2)>>
        \o Lits(S_sep)
        \o <<Alt(<<Open(3), Plus("set", NumChars), Close(3)>>
                      \o Lits(S_reduced_open)
                      \o <<Open(4), Plus("set", NumChars), Close(4)>>
                      \o Lits(S_reduced_close)
                      \o <<Open(5), Plus("set", DateChars), Close(5)>>,
                  Lits(S_no_data))>>

\* ## Standards Table\n(.+?)\n\n   with re.DOTALL
Re_table ==
    Lits(S_table) \o <<Open(1), PlusLazy("any", {}), Close(1)>>
        \o Lits(S_blank)

\* ## Key Calculations\n\*\*(.+)\*\*
Re_key_calc ==
    Lits(S_key_calc) \o <<Open(1), Plus("dot", {}), Close(1)>>
        \o Lits(S_bold)

(***************************************************************************)
(* parse_page_content_to_json                                              *)
(***************************************************************************)
\* SetIf with an empty string stored when there is no match
SetIf_Placeholder(d, k, m, page_content, strip) ==
    IF m.ok
    THEN Set(d, k, PyStr(IF strip THEN Strip(Group(m, page_content, 1))
                         ELSE Group(m, page_content, 1)))
    ELSE Set(d, k, PyStr(<< >>))

\* if m: d[k] = m.group(1).strip()   (without .strip() unless strip)
SetIf(d, k, m, page_content, strip) ==
    IF m.ok
    THEN Set(d, k, PyStr(IF strip THEN Strip(Group(m, page_content, 1))
                         ELSE Group(m, page_content, 1)))
    ELSE d

\* m = re.search(re, page_content); if m: d[k] = m.group(1).strip()
SetStripped(d, k, re, page_content) ==
    SetIf(d, k, Search(re, page_content), page_content, TRUE)

\* the same without .strip()
SetGroup(d, k, re, page_content) ==
    SetIf(d, k, Search(re, page_content), page_content, FALSE)

\* data["document_info"]
document_info(page_content) ==
    SetGroup(
        SetStripped(
            SetStripped(
                SetStripped(
                    SetStripped(EmptyDict, "title", Re_doc_title,
                                page_content),
                    "document_title", Re_title, page_content),
                "qc_protocol", Re_qc, page_content),
            "status", Re_status, page_content),
        "date", Re_date, page_content)

\* data["instrument_settings"]
instrument_settings(page_content) ==
    SetGroup(EmptyDict, "wavelength_combination", Re_wl_comb, page_content)

\* if temp: d["mean_temperature"] = temp.group(1) + "°C"
SetTemp(d, temp, page_content) ==
    IF temp.ok
    THEN Set(d, "mean_temperature",
             PyStr(Group(temp, page_content, 1) \o S_degC))
    ELSE d

\* data["instrument_info"]
instrument_info(page_content) ==
    SetStripped(
        SetTemp(
            SetStripped(
                SetStripped(
                    SetStripped(EmptyDict, "instrument", Re_instr,
                                page_content),
                    "rom", Re_rom, page_content),
                "start_read", Re_start_read, page_content),
            Search(Re_temp, page_content), page_content),
        "operator", Re_operator, page_content)

\* the value of a float() call: the float, or the marker of the
\* ValueError it raised
OrRaise(f) == IF f.ok THEN f.v ELSE [ty |-> "raise"]

\* float(x.replace(',', ''))
FloatNoCommas(x) == OrRaise(Float(Remove(x, ",")))

\* float(conc)
FloatOf(x) == OrRaise(Float(x))

\* the well record of one match of the standard-curve pattern
StdWell(m, page_content) ==
    [well |-> PyStr(Group(m, page_content, 1)),
     concentration |-> FloatOf(Group(m, page_content, 2)),
     fluorescence_value |-> FloatNoCommas(Group(m, page_content, 3)),
     reduced_value |-> FloatNoCommas(Group(m, page_content, 4)),
     date |-> PyStr(Group(m, page_content, 5))]

\* FloatOrNone with 0.0 for a field without a reading
FloatOrNone_Zero(x) ==
    IF x # << >> THEN FloatNoCommas(x) ELSE Float(<<"0">>).v

\* float(x.replace(',', '')) if x else None
FloatOrNone(x) == IF x # << >> THEN FloatNoCommas(x) ELSE None

\* x if x else None
StrOrNone(x) == IF x # << >> THEN PyStr(x) ELSE None

\* the well record of one match of the control/sample pattern
ControlWell(m, page_content) ==
    [well |-> PyStr(Group(m, page_content, 1)),
     sample_type |-> PyStr(Strip(Group(m, page_content, 2))),
     fluorescence_value |-> FloatOrNone(Group(m, page_content, 3)),
     reduced_value |-> FloatOrNone(Group(m, page_content, 4)),
     date |-> StrOrNone(Group(m, page_content, 5))]

\* whether building a well record raised
WellRaises(w) ==
    \/ w.fluorescence_value.ty = "raise"
    \/ w.reduced_value.ty = "raise"
    \/ ("concentration" \in DOMAIN w /\ w.concentration.ty = "raise")

\* the well records of the matches stds
StdWells(stds, page_content) ==
    [i \in 1..Len(stds) |-> StdWell(stds[i], page_content)]

\* the well records of the matches controls
ControlWells(controls, page_content) ==
    [i \in 1..Len(controls) |-> ControlWell(controls[i], page_content)]

standard_curve_wells(page_content) ==
    StdWells(FindAll(Re_stds, page_content), page_content)

control_and_sample_wells(page_content) ==
    ControlWells(FindAll(Re_controls, page_content), page_content)

\* [x.strip() for x in parts]
StripAll(parts) == [i \in 1..Len(parts) |-> Strip(parts[i])]

\* [x.strip() for x in line.split("|")[1:-1]]
Cells(line) == StripAll(Inner(Split(line, "|")))

\* the value kept for a cell: the float f when float() returned, else c
FloatOrStr(f, c) == IF f.ok THEN f.v ELSE PyStr(c)

\* try: float(c.replace(',', ''))  except: c
CellValue(c) == FloatOrStr(Float(Remove(c, ",")), c)

\* the last position at which h occurs in headers
LastIndex(headers, h) ==
    CHOOSE i \in 1..Len(headers) :
        /\ headers[i] = h
        /\ \A j \in (i + 1)..Len(headers) : headers[j] # h

\* the row dict of the cells cols: each header is given the cell at its
\* position, a later header of the same name overwriting an earlier one; a
\* header with no cell at its position raises IndexError (in the try, and
\* again in the except clause)
RowOf(headers, cols) ==
    IF Len(cols) < Len(headers) THEN [ty |-> "raise"]
    ELSE [ty |-> "dict",
          d |-> [h \in {headers[i] : i \in 1..Len(headers)} |->
                   CellValue(cols[LastIndex(headers, h)])]]

\* the row dict built from one table line
TableRow(headers, line) == RowOf(headers, Cells(line))

\* table_match.group(1).strip().split("\n"), or << >> without a match
LinesOf(table_match, page_content) ==
    IF table_match.ok
    THEN Split(Strip(Group(table_match, page_content, 1)), "\n")
    ELSE << >>

table_lines(page_content) ==
    LinesOf(Search(Re_table, page_content), page_content)

\* the headers and the rows of the lines after the second
TableWith(headers, rest) ==
    [headers |-> headers,
     data |-> [i \in 1..Len(rest) |-> TableRow(headers, rest[i])]]

\* the table of the lines of the block: the first line gives the headers,
\* the second is skipped
TableOf(lines) ==
    IF lines = << >> THEN [headers |-> << >>, data |-> << >>]
    ELSE TableWith(Cells(lines[1]), From2(lines))

\* data["standards_table"], its rows possibly raising
standards_table(page_content) == TableOf(table_lines(page_content))

\* key_calc.group(1).strip() if key_calc, else None
KeyOf(key_calc, page_content) ==
    IF key_calc.ok THEN PyStr(Strip(Group(key_calc, page_content, 1)))
    ELSE None

\* data["key_calculation"]
key_calculation(page_content) ==
    KeyOf(Search(Re_key_calc, page_content), page_content)

\* the data returned
Data(page_content, stds, controls, table) ==
    [document_info |-> document_info(page_content),
     instrument_settings |-> instrument_settings(page_content),
     instrument_info |-> instrument_info(page_content),
     sample_data |-> [standard_curve_wells |-> stds,
                      control_and_sample_wells |-> controls],
     standards_table |->
         [headers |-> [i \in 1..Len(table.headers) |->
                         PyStr(table.headers[i])],
          data |-> [i \in 1..Len(table.data) |-> table.data[i].d]],
     key_calculation |-> key_calculation(page_content),
     full_content |-> PyStr(page_content)]

\* the outcome given the well records and the table: the first exception
\* raised, in the order of the code, or the data
Outcome(page_content, stds, controls, table) ==
    IF \E i \in 1..Len(stds) : WellRaises(stds[i])
    THEN [status |-> "raised", exc |-> "ValueError"]
    ELSE IF \E i \in 1..Len(controls) : WellRaises(controls[i])
    THEN [status |-> "raised", exc |-> "ValueError"]
    ELSE IF \E i \in 1..Len(table.data) : table.data[i].ty = "raise"
    THEN [status |-> "raised", exc |-> "IndexError"]
    ELSE [status |-> "returned",
          data |-> Data(page_content, stds, controls, table)]

\* the outcome of parse_page_content_to_json(page_content): the returned
\* data, or the exception that left the function
parse_page_content_to_json(page_content) ==
    Outcome(page_content, standard_curve_wells(page_content),
            control_and_sample_wells(page_content),
            standards_table(page_content))

(***************************************************************************)
(* Bounds                                                                  *)
(***************************************************************************)
\* the most pages a document has
MaxPages == 2

\* the longest numeric token tried in a well line
MaxNumLen == 2

\* the most columns of a standards table (a row has up to one cell more)
MaxCols == 2

(***************************************************************************)
(* Texts                                                                   *)
(***************************************************************************)
\* f"\n\n=== PAGE {n} ===\n"
Marker(n) ==
    <<"\n", "\n", "=", "=", "=", " ", "P", "A", "G", "E", " ">>
        \o StrNat(n) \o <<" ", "=", "=", "=", "\n">>

\* f"Error analyzing page {page_num}: {str(e)}"
ErrorText(page_num, e) ==
    <<"E", "r", "r", "o", "r", " ", "a", "n", "a", "l", "y", "z", "i",
      "n", "g", " ", "p", "a", "g", "e", " ">>
        \o StrNat(page_num) \o <<":", " ">> \o e

\* str(e) of the exceptions the vision call raises
ErrorMessages == {<<"t", "i", "m", "e", "o", "u", "t">>}

\* a standard-curve line of well A1
StdLine(conc, val, red, date) ==
    S_well_open \o <<"A", "1">> \o S_well_close \o conc \o S_std \o val
        \o S_reduced_open \o red \o S_reduced_close \o date

\* a control line of well B1 with a reading
CtlLine(sample, val, red, date) ==
    S_well_open \o <<"B", "1">> \o S_well_close \o sample \o S_sep \o val
        \o S_reduced_open \o red \o S_reduced_close \o date

\* a control line of well B2 without a reading
NoDataLine(sample) ==
    S_well_open \o <<"B", "2">> \o S_well_close \o sample \o S_sep
        \o S_no_data

RECURSIVE Join(_, _)
\* the texts of xs, each followed by sep
Join(xs, sep) ==
    IF xs = << >> THEN << >> ELSE Head(xs) \o sep \o Join(Tail(xs), sep)

\* a table line: | c1 | c2 | ...   (a lone | when there is no cell)
TableLine(cells) ==
    <<"|">> \o Join([i \in 1..Len(cells) |-> <<" ">> \o cells[i] \o <<" ">>],
                    <<"|">>)

\* a standards-table block with one data row, ended by a blank line
TableText(headers, cells) ==
    S_table \o TableLine(headers) \o <<"\n">>
        \o TableLine([i \in 1..Len(headers) |-> <<"-">>]) \o <<"\n">>
        \o TableLine(cells) \o S_blank

\* 01-01-2024 10:00:00
T_date ==
    <<"0", "1", "-", "0", "1", "-", "2", "0", "2", "4", " ", "1", "0", ":",
      "0", "0", ":", "0", "0">>

\* a page with a title and an instrument line
T_title ==
    S_doc_title \o <<"Q", "C", " ", "\n">> \o S_instr
        \o <<"S", "p", "e", "c", "t", "r", "a">>

\* a page that ends inside a standards table (no blank line after it)
T_table_open ==
    S_table \o TableLine(<< <<"A">>, <<"B">> >>) \o <<"\n">>
        \o TableLine(<< <<"-">>, <<"-">> >>) \o <<"\n">>
        \o TableLine(<< <<"1", ",", "5">>, <<"x">> >>)

\* a page with a standard-curve line whose concentration is 1.2.3
T_bad_well == StdLine(<<"1", ".", "2", ".", "3">>, <<"1">>, <<"1">>, <<"1">>)

\* a page with a standard-curve line and a control line without a reading
T_wells ==
    StdLine(<<"5", ".", "0">>, <<"1", ",", "2", "3", "4", ".", "5">>,
            <<"1", ",", "2", "0", "0", ".", "0">>, T_date)
        \o <<"\n">> \o NoDataLine(<<"B", "l", "a", "n", "k">>)

\* the texts the vision call returns for a page
PageTexts == {T_title, T_table_open, T_bad_well, T_wells}

(***************************************************************************)
(* State                                                                   *)
(***************************************************************************)
VARIABLES
    pc,              \* the position in extract_pdf_with_vision
    doc,             \* the handle of line 30: unopened, open, closed
    meta_doc,        \* the handle of extract_metadata (line 80)
    open_calls,      \* the number of fitz.open calls made
    num_pages,       \* len(doc)
    page_num,        \* the loop variable of line 42
    render_log,      \* the pages rendered (load_page .. tobytes), in order
    api_log,         \* the outcome of each vision call, in order
    pages,           \* results["pages"]
    full_content,    \* results["full_content"]
    summary,         \* results["summary"]
    structured_data, \* results["structured_data"]
    files,           \* the three output files
    exc,             \* where the exception caught at line 73 was raised
    ret,             \* what extract_pdf_with_vision returned
    parse_calls,     \* the number of calls of parse_page_content_to_json
    parse_arg,       \* the argument of the last one
    parse_ret        \* its outcome

vars ==
    <<pc, doc, meta_doc, open_calls, num_pages, page_num, render_log, api_log,
      pages, full_content, summary, structured_data, files, exc, ret,
      parse_calls, parse_arg, parse_ret>>

\* the variables of the parser's call
parse_vars == <<parse_calls, parse_arg, parse_ret>>

\* len(img_data) of the PNG page n renders to: fixed by the document
PngSize(n) == 100 + n

\* len(content.strip()) below which generate_summary makes no call
SummaryMinLen == 50

\* the state of results and of the environment before line 27
Fresh ==
    /\ doc = "unopened"
    /\ meta_doc = "unopened"
    /\ open_calls = 0
    /\ num_pages = 0
    /\ page_num = 0
    /\ render_log = << >>
    /\ api_log = << >>
    /\ pages = << >>
    /\ full_content = << >>
    /\ summary = << >>
    /\ structured_data = EmptyDict
    /\ files = [json |-> "absent", txt |-> "absent", csv |-> "absent"]
    /\ exc = "none"
    /\ ret = "running"

Init ==
    /\ pc = "mkdir"
    /\ Fresh
    /\ parse_calls = 0
    /\ parse_arg = << >>
    /\ parse_ret = [status |-> "not_called"]

(***************************************************************************)
(* extract_pdf_with_vision                                                 *)
(***************************************************************************)
\* the except clause of lines 73-75: the exception raised at `at` is
\* printed and None is returned
Abort(at) ==
    /\ exc' = at
    /\ ret' = "None"
    /\ pc' = "done"

\* line 27: Path(output_path).mkdir(exist_ok=True), outside the try
Mkdir ==
    /\ pc = "mkdir"
    /\ \/ /\ pc' = "open"
          /\ ret' = ret
       \/ /\ pc' = "done"
          /\ ret' = "raised"
    /\ UNCHANGED <<doc, meta_doc, open_calls, num_pages, page_num, render_log,
                   api_log, pages, full_content, summary, structured_data,
                   files, exc, parse_vars>>

\* line 30: doc = fitz.open(pdf_path)
OpenDoc ==
    /\ pc = "open"
    /\ open_calls' = open_calls + 1
    /\ \/ /\ \E n \in 0..MaxPages : num_pages' = n
          /\ doc' = "open"
          /\ pc' = "metadata"
          /\ UNCHANGED <<exc, ret>>
       \/ /\ Abort("open")
          /\ UNCHANGED <<doc, num_pages>>
    /\ UNCHANGED <<meta_doc, page_num, render_log, api_log, pages,
                   full_content, summary, structured_data, files, parse_vars>>

\* line 33 and lines 77-85: extract_metadata opens the file again; it
\* closes its handle unless the open or the metadata read raised, and
\* swallows every exception
ExtractMetadata ==
    /\ pc = "metadata"
    /\ open_calls' = open_calls + 1
    /\ \E m \in {"closed", "open", "unopened"} : meta_doc' = m
    /\ pc' = "loop"
    /\ UNCHANGED <<doc, num_pages, page_num, render_log, api_log, pages,
                   full_content, summary, structured_data, files, exc, ret,
                   parse_vars>>

\* RenderPage with a failed render tried again instead of ending the run
RenderPage_Retried ==
    /\ pc = "loop"
    /\ page_num < num_pages
    /\ render_log' = Append(render_log, page_num + 1)
    /\ pc' \in {"vision", "loop"}
    /\ UNCHANGED <<doc, meta_doc, open_calls, num_pages, page_num, api_log,
                   pages, full_content, summary, structured_data, files,
                   exc, ret, parse_vars>>

\* lines 42-49: the next page is loaded and rendered to a PNG
RenderPage ==
    /\ pc = "loop"
    /\ page_num < num_pages
    /\ render_log' = Append(render_log, page_num + 1)
    /\ \/ /\ pc' = "vision"
          /\ UNCHANGED <<exc, ret>>
       \/ Abort("render")
    /\ UNCHANGED <<doc, meta_doc, open_calls, num_pages, page_num, api_log,
                   pages, full_content, summary, structured_data, files,
                   parse_vars>>

\* analyze_page_vision with the exception's text returned as it is
analyze_page_vision_Raw(page, outcome) == outcome.text

\* lines 87-116: the text of the vision call, or the error text when the
\* call raised
analyze_page_vision(page, outcome) ==
    IF outcome.ok THEN outcome.text ELSE ErrorText(page, outcome.text)

\* the outcomes of client.messages.create for a page image
VisionOutcomes ==
    [ok : {TRUE}, text : PageTexts] \cup [ok : {FALSE}, text : ErrorMessages]

\* lines 53-57: the PageResult of page n
PageResult(n, page_content) ==
    [page_number |-> n, content |-> page_content, image_size |-> PngSize(n)]

\* AppendPage with = for +=: the page's text replaces the buffer
AppendPage_Overwrites(content, n, page_content) == Marker(n) \o page_content

\* line 59: results["full_content"] += f"\n\n=== PAGE {n} ===\n{page_content}"
AppendPage(content, n, page_content) == content \o Marker(n) \o page_content

\* lines 51-59: the page is transcribed, its PageResult appended and its
\* text appended to full_content
AnalyzePage ==
    /\ pc = "vision"
    /\ \E outcome \in VisionOutcomes :
         LET page_content == analyze_page_vision(page_num + 1, outcome)
         IN  /\ api_log' = Append(api_log, [page |-> page_num + 1,
                                            ok |-> outcome.ok,
                                            text |-> outcome.text])
             /\ pages' = Append(pages, PageResult(page_num + 1, page_content))
             /\ full_content' = AppendPage(full_content, page_num + 1,
                                           page_content)
    /\ page_num' = page_num + 1
    /\ pc' = "loop"
    /\ UNCHANGED <<doc, meta_doc, open_calls, num_pages, render_log, summary,
                   structured_data, files, exc, ret, parse_vars>>

\* CloseDoc without the call of close
CloseDoc_Skipped ==
    /\ pc = "loop"
    /\ page_num >= num_pages
    /\ pc' = "summary"
    /\ UNCHANGED <<doc, meta_doc, open_calls, num_pages, page_num, render_log,
                   api_log, pages, full_content, summary, structured_data,
                   files, exc, ret, parse_vars>>

\* line 61: doc.close(), once range(len(doc)) is exhausted
CloseDoc ==
    /\ pc = "loop"
    /\ page_num >= num_pages
    /\ doc' = "closed"
    /\ pc' = "summary"
    /\ UNCHANGED <<meta_doc, open_calls, num_pages, page_num, render_log,
                   api_log, pages, full_content, summary, structured_data,
                   files, exc, ret, parse_vars>>

\* line 64 and lines 118-138: the summary; no call is made for a short
\* content, and a failed call is turned into a text
GenerateSummary ==
    /\ pc = "summary"
    /\ IF Len(Strip(full_content)) < SummaryMinLen
       THEN summary' = "No substantial content found for summary."
       ELSE \E s \in {"response text", "Summary generation failed"} :
                summary' = s
    /\ pc' = "parse"
    /\ UNCHANGED <<doc, meta_doc, open_calls, num_pages, page_num, render_log,
                   api_log, pages, full_content, structured_data, files, exc,
                   ret, parse_vars>>

\* line 65: the parser runs on full_content; an exception leaving it is
\* caught at line 73
ParseContent ==
    /\ pc = "parse"
    /\ parse_calls' = parse_calls + 1
    /\ parse_arg' = full_content
    /\ parse_ret' = parse_page_content_to_json(full_content)
    /\ \/ /\ parse_ret'.status = "returned"
          /\ structured_data' = parse_ret'.data
          /\ pc' = "save_json"
          /\ UNCHANGED <<exc, ret>>
       \/ /\ parse_ret'.status = "raised"
          /\ Abort("parse")
          /\ UNCHANGED structured_data
    /\ UNCHANGED <<doc, meta_doc, open_calls, num_pages, page_num, render_log,
                   api_log, pages, full_content, summary, files>>

\* a file after a writer that raised: not created when open() raised,
\* created and incomplete when the write raised
Broken == {"absent", "partial"}

\* line 68 and lines 244-252: save_json
SaveJson ==
    /\ pc = "save_json"
    /\ \/ /\ files' = [files EXCEPT !.json = "complete"]
          /\ pc' = "save_txt"
          /\ UNCHANGED <<exc, ret>>
       \/ /\ \E f \in Broken : files' = [files EXCEPT !.json = f]
          /\ Abort("save_json")
    /\ UNCHANGED <<doc, meta_doc, open_calls, num_pages, page_num, render_log,
                   api_log, pages, full_content, summary, structured_data,
                   parse_vars>>

\* line 69 and lines 255-259: save_results writes the text file
SaveTxt ==
    /\ pc = "save_txt"
    /\ \/ /\ files' = [files EXCEPT !.txt = "complete"]
          /\ pc' = "save_csv"
          /\ UNCHANGED <<exc, ret>>
       \/ /\ \E f \in Broken : files' = [files EXCEPT !.txt = f]
          /\ Abort("save_txt")
    /\ UNCHANGED <<doc, meta_doc, open_calls, num_pages, page_num, render_log,
                   api_log, pages, full_content, summary, structured_data,
                   parse_vars>>

\* SaveCsv with the exception of the CSV writer swallowed: the result is
\* returned whatever became of the file
SaveCsv_Swallowed ==
    /\ pc = "save_csv"
    /\ \E f \in Broken \cup {"complete"} :
           files' = [files EXCEPT !.csv = f]
    /\ ret' = "results"
    /\ pc' = "done"
    /\ UNCHANGED <<doc, meta_doc, open_calls, num_pages, page_num, render_log,
                   api_log, pages, full_content, summary, structured_data,
                   exc, parse_vars>>

\* lines 261-263 and 265-274: save_as_csv, then line 71: return results
SaveCsv ==
    /\ pc = "save_csv"
    /\ \/ /\ files' = [files EXCEPT !.csv = "complete"]
          /\ ret' = "results"
          /\ pc' = "done"
          /\ UNCHANGED exc
       \/ /\ \E f \in Broken : files' = [files EXCEPT !.csv = f]
          /\ Abort("save_csv")
    /\ UNCHANGED <<doc, meta_doc, open_calls, num_pages, page_num, render_log,
                   api_log, pages, full_content, summary, structured_data,
                   parse_vars>>

Next ==
    \/ Mkdir
    \/ OpenDoc
    \/ ExtractMetadata
    \/ RenderPage
    \/ AnalyzePage
    \/ CloseDoc
    \/ GenerateSummary
    \/ ParseContent
    \/ SaveJson
    \/ SaveTxt
    \/ SaveCsv

Spec == Init /\ [][Next]_vars

(***************************************************************************)
(* Direct calls of parse_page_content_to_json                              *)
(***************************************************************************)
\* the numeric tokens tried in well lines, which ([\d\.e,]+) captures:
\* the strings of 1 . e and , up to the length MaxNumLen
NumStrs == UNION {[1..n -> {"1", ".", "e", ","}] : n \in 1..MaxNumLen}

\* the cells tried in table rows: 1,5 and x and an empty cell
CellStrs == {<<"1", ",", "5">>, <<"x">>, << >>}

\* standard-curve lines with each numeric field in turn ranging over the
\* tokens
StdInputs ==
    {StdLine(c, <<"1">>, <<"2">>, T_date) :
       c \in {x \in NumStrs : \A i \in 1..Len(x) : x[i] \in NumDot}}
        \cup {StdLine(<<"5", ".", "0">>, v, <<"2">>, T_date) : v \in NumStrs}
        \cup {StdLine(<<"5", ".", "0">>, <<"1">>, r, T_date) : r \in NumStrs}

\* " Ctl " and "Blank" and a sample type that holds a reading itself
Samples ==
    {<<" ", "C", "t", "l", " ">>, <<"B", "l", "a", "n", "k">>,
     <<"X">> \o S_sep \o <<"5">> \o S_reduced_open \o <<"5", ")">>}

\* control lines with a reading, each numeric field in turn ranging over
\* the tokens, and control lines without one
CtlInputs ==
    {CtlLine(<<" ", "C", "t", "l", " ">>, v, <<"2">>, T_date) : v \in NumStrs}
        \cup {CtlLine(<<"B", "l", "a", "n", "k">>, <<"1">>, r, T_date) :
                r \in NumStrs}
        \cup {NoDataLine(s) : s \in Samples}
        \cup {CtlLine(s, <<"1", ",", "0">>, <<"2", ".", "5">>, T_date)
                \o <<"\n">> \o NoDataLine(s) : s \in Samples}

\* standards tables with one data row: the header rows A, B, ... of up
\* to MaxCols columns, the data row of up to one cell more
TableInputs ==
    {TableText(h, c) :
       h \in {[i \in 1..n |-> <<UpperSeq[i]>>] : n \in 0..MaxCols},
       c \in UNION {[1..n -> CellStrs] : n \in 0..(MaxCols + 1)}}

\* a document with every labelled field, a well of each kind, a table and
\* a key calculation
P_full ==
    S_doc_title \o <<"Q", "C", " ", "\n">>
        \o S_title \o <<"T", "1", "\n">>
        \o S_qc_open \o <<"P", "1">> \o S_qc_close
        \o <<":", " ", "F", "i", "n", "a", "l", "\n">>
        \o S_bold \o <<"0", "1", "-", "J", "a", "n", "-", "2", "0", "2", "4",
                       " ", "1", "0", ":", "0", "0", ":", "0", "0">>
        \o S_bold \o <<"\n">>
        \o S_wl_comb \o <<"L", "m", "1", "\n">>
        \o S_instr \o <<"S", "p", "e", "c", "t", "r", "a", " ", "\n">>
        \o S_rom \o <<"v", "1", "\n">>
        \o S_start_read \o <<"n", "o", "w", "\n">>
        \o S_temp \o <<"2", "5", ".", "1">> \o S_degC \o <<"\n">>
        \o <<"*", "*", "r", "e", "a", "d", " ", "b", "y", ":", "*", "*", " ",
             "b", "o", "b", "\n">>
        \o T_wells \o <<"\n">>
        \o TableText(<< <<"A">>, <<"B">> >>, << <<"1", ".", "5">>, <<"x">> >>)
        \o S_key_calc \o <<"a", " ", "=", " ", "b">> \o S_bold
        \o <<" ", "c">> \o S_bold

\* the texts the parser is called with: the empty text, the full
\* document, the texts of the pages, the error text of a failed vision
\* call, the well lines and the tables, and
\*   a text that no pattern matches,
\*   two lines of the same label,
\*   a well line cut before its reduced value,
\*   a standards-table heading over a block that is no table,
\*   a standards-table heading over a header row alone,
\*   a block of three lines without a pipe
ParseInputs ==
    {<< >>, P_full,
     <<"h", "e", "l", "l", "o", "\n", "w", "o", "r", "l", "d">>,
     S_instr \o <<"a", "\n">> \o S_instr \o <<"b">>,
     S_well_open \o <<"A", "1">> \o S_well_close \o <<"5">> \o S_std
         \o <<"1">>,
     S_table \o <<"x">> \o S_blank,
     S_table \o TableLine(<< <<"A">> >>) \o S_blank,
     S_table \o <<"x", "\n", "y", "\n", "z">> \o S_blank}
        \cup {ErrorText(1, e) : e \in ErrorMessages}
        \cup PageTexts
        \cup StdInputs \cup CtlInputs \cup TableInputs

InitParse ==
    /\ pc = "call"
    /\ Fresh
    /\ parse_calls = 0
    /\ parse_arg \in ParseInputs
    /\ parse_ret = [status |-> "not_called"]

\* parse_page_content_to_json(parse_arg), called on its own
ParseCall ==
    /\ pc = "call"
    /\ parse_calls' = parse_calls + 1
    /\ parse_ret' = parse_page_content_to_json(parse_arg)
    /\ pc' = "done"
    /\ UNCHANGED <<doc, meta_doc, open_calls, num_pages, page_num, render_log,
                   api_log, pages, full_content, summary, structured_data,
                   files, exc, ret, parse_arg>>

NextParse == ParseCall

SpecParse == InitParse /\ [][NextParse]_vars

(***************************************************************************)
(* Properties                                                              *)
(***************************************************************************)
\* the parser has been called; it returned; it raised
Called == parse_ret.status # "not_called"

Returned == parse_ret.status = "returned"

\* the number of occurrences of character c in s
Count(s, c) == Cardinality({i \in 1..Len(s) : s[i] = c})

Min(a, b) == IF a <= b THEN a ELSE b

IsPrefix(a, b) == Len(a) <= Len(b) /\ SubSeq(b, 1, Len(a)) = a

NoFilesWritten ==
    files = [json |-> "absent", txt |-> "absent", csv |-> "absent"]

AllFilesWritten ==
    files = [json |-> "complete", txt |-> "complete", csv |-> "complete"]

\* C1: parse_page_content_to_json never raises: whatever text it is
\* called with, it returns a record.
C1_ParserNeverRaises == parse_ret.status # "raised"

\* no page is rendered twice
NoRetry ==
    \A i, j \in 1..Len(render_log) :
        i # j => render_log[i] # render_log[j]

\* C2: when opening the PDF or rendering a page raises, at page 1 or after
\* pages have been transcribed, extract_pdf_with_vision returns None, none
\* of the three files is written (the parser is not even called), and no
\* page is rendered a second time.
C2_RenderFailureAbortsRun ==
    /\ NoRetry
    /\ exc \in {"open", "render"} =>
           /\ pc = "done"
           /\ ret = "None"
           /\ NoFilesWritten
           /\ parse_calls = 0

\* a render failure after a page has been transcribed
C2_Witness ==
    exc = "render" /\ Len(pages) >= 1 /\ ret = "None" /\ NoFilesWritten

\* the text the claim gives the content of page n after the vision call
\* failed with the message msg
ErrorContent(n, msg) ==
    <<"E", "r", "r", "o", "r", " ", "a", "n", "a", "l", "y", "z", "i",
      "n", "g", " ", "p", "a", "g", "e", " ">>
        \o StrNat(n) \o <<":", " ">> \o msg

\* C3: a vision call that fails does not abort the run: the page's content
\* is 'Error analyzing page n: <message>', its PageResult is appended, the
\* loop goes on with the next page, and a run that returns a result has
\* rendered and transcribed every page, parsed the concatenated text and
\* written the three files.
C3_VisionFailureTolerated ==
    /\ \A i \in 1..Len(api_log) :
           ~api_log[i].ok =>
               /\ i <= Len(pages)
               /\ pages[i].content = ErrorContent(i, api_log[i].text)
               /\ pages[i].page_number = i
    /\ pc = "loop" => page_num = Len(api_log) /\ ret = "running"
    /\ ret = "results" =>
           /\ render_log = [i \in 1..num_pages |-> i]
           /\ Len(pages) = num_pages
           /\ parse_arg = full_content
           /\ AllFilesWritten

\* a run that returned a result although the vision call failed for a page
\* that was not the last
C3_Witness ==
    /\ ret = "results"
    /\ AllFilesWritten
    /\ \E i \in 1..Len(api_log) : ~api_log[i].ok /\ i < num_pages

RECURSIVE Concatenated(_)
\* the markers and contents of the page results ps, in order
Concatenated(ps) ==
    IF ps = << >> THEN << >>
    ELSE Concatenated(SubSeq(ps, 1, Len(ps) - 1))
             \o <<"\n", "\n", "=", "=", "=", " ", "P", "A", "G", "E", " ">>
             \o StrNat(ps[Len(ps)].page_number)
             \o <<" ", "=", "=", "=", "\n">>
             \o ps[Len(ps)].content

C4_State ==
    /\ Len(pages) = page_num
    /\ \A i \in 1..Len(pages) : pages[i].page_number = i
    /\ full_content = Concatenated(pages)
    /\ parse_calls <= 1
    /\ parse_calls = 1 =>
           /\ page_num = num_pages
           /\ parse_arg = full_content
           /\ pc \notin {"mkdir", "open", "metadata", "loop", "vision",
                         "summary", "parse"}
    /\ (/\ pc \in {"save_json", "save_txt", "save_csv", "done"}
        /\ exc \notin {"open", "render"}
        /\ ret # "raised") => parse_calls = 1

C4_Step ==
    /\ IsPrefix(full_content, full_content')
    /\ IsPrefix(pages, pages')
    /\ Len(pages') <= Len(pages) + 1

\* C4: pages are processed one at a time in ascending order: after k
\* iterations pages holds the entries of pages 1..k in order and
\* full_content is the concatenation, for n = 1..k, of the marker
\* "\n\n=== PAGE n ===\n" and page n's content; full_content only grows by
\* appending; the parser is called once, after the last page.
C4_PagesInOrder == [](C4_State) /\ [][C4_Step]_vars

\* two pages processed and the parser called
C4_Witness == page_num = 2 /\ Len(pages) = 2 /\ parse_calls = 1

\* the labelled single-value fields: the dict and key each is stored
\* under, and its pattern
ScalarRules ==
    {[part |-> "document_info", key |-> "title", re |-> Re_doc_title],
     [part |-> "document_info", key |-> "document_title", re |-> Re_title],
     [part |-> "document_info", key |-> "qc_protocol", re |-> Re_qc],
     [part |-> "document_info", key |-> "status", re |-> Re_status],
     [part |-> "document_info", key |-> "date", re |-> Re_date],
     [part |-> "instrument_settings", key |-> "wavelength_combination",
      re |-> Re_wl_comb],
     [part |-> "instrument_info", key |-> "instrument", re |-> Re_instr],
     [part |-> "instrument_info", key |-> "rom", re |-> Re_rom],
     [part |-> "instrument_info", key |-> "start_read", re |-> Re_start_read],
     [part |-> "instrument_info", key |-> "mean_temperature",
      re |-> Re_temp],
     [part |-> "instrument_info", key |-> "operator", re |-> Re_operator]}

\* the keys of the three dicts
PartKeys(part) == {r.key : r \in {x \in ScalarRules : x.part = part}}

\* every field other than the standards table is populated exactly when
\* its pattern matches, no dict holds another key, and full_content is the
\* input
C5_FieldsIffMatched ==
    /\ \A r \in ScalarRules :
           r.key \in DOMAIN parse_ret.data[r.part]
               <=> Search(r.re, parse_arg).ok
    /\ \A part \in {"document_info", "instrument_settings",
                    "instrument_info"} :
           DOMAIN parse_ret.data[part] \subseteq PartKeys(part)
    /\ parse_ret.data.sample_data.standard_curve_wells # << >>
           <=> Search(Re_stds, parse_arg).ok
    /\ parse_ret.data.sample_data.control_and_sample_wells # << >>
           <=> Search(Re_controls, parse_arg).ok
    /\ parse_ret.data.key_calculation # None
           <=> Search(Re_key_calc, parse_arg).ok
    /\ parse_ret.data.full_content = PyStr(parse_arg)

\* the first line of a text
FirstLine(block) == Before(block, FirstOf(block, {"\n"}))

\* the table pattern matched and the stripped block it captured satisfies
\* Shape
TableBlockIs(Shape(_)) ==
    \E m \in {Search(Re_table, parse_arg)} :
        /\ m.ok
        /\ \E block \in {Strip(Group(m, parse_arg, 1))} : Shape(block)

\* the first line of the block holds two pipes
TwoPipes(block) == Count(FirstLine(block), "|") >= 2

\* the block has three lines
ThreeLines(block) == Count(block, "\n") >= 2

\* C5 as claimed: in the returned record each field, the standards table
\* included, is populated if and only if its pattern matched.
C5_PopulatedIffMatched ==
    Returned =>
        /\ C5_FieldsIffMatched
        /\ (\/ parse_ret.data.standards_table.headers # << >>
            \/ parse_ret.data.standards_table.data # << >>)
               <=> Search(Re_table, parse_arg).ok

\* C5 amended: in the returned record each labelled field, each well list
\* and key_calculation is populated if and only if its pattern matched;
\* the standards table's headers are populated if and only if the table
\* pattern matched and the first line of the block holds two pipes, its
\* data if and only if the pattern matched and the block has three lines;
\* full_content is the input.
C5_PopulatedIffMatchedExceptTable ==
    Returned =>
        /\ C5_FieldsIffMatched
        /\ parse_ret.data.standards_table.headers # << >>
               <=> TableBlockIs(TwoPipes)
        /\ parse_ret.data.standards_table.data # << >>
               <=> TableBlockIs(ThreeLines)

\* a record with a labelled field, wells, a table and a key calculation
C5_Witness ==
    /\ Returned
    /\ "title" \in DOMAIN parse_ret.data.document_info
    /\ parse_ret.data.sample_data.standard_curve_wells # << >>
    /\ parse_ret.data.standards_table.headers # << >>
    /\ parse_ret.data.key_calculation # None

\* whether float(x.replace(',', '')) raises
BadNumber(x) == ~Float(Remove(x, ",")).ok

\* the value the claim gives a numeric field: the float, else the string
FloatElseRaw(x) ==
    IF BadNumber(x) THEN PyStr(x) ELSE Float(Remove(x, ",")).v

\* C6: a numeric field of a matched well line that float() rejects is
\* kept as the raw string: the parser returns, and the well record holds
\* the float of each field that converts and the string of each that
\* does not.
C6_NumericFailureFallsBack ==
    LET stds == FindAll(Re_stds, parse_arg)
        controls == FindAll(Re_controls, parse_arg)
    IN  (/\ Called
         /\ \/ \E i \in 1..Len(stds) : \E g \in {2, 3, 4} :
                   BadNumber(Group(stds[i], parse_arg, g))
            \/ \E i \in 1..Len(controls) : \E g \in {3, 4} :
                   /\ Group(controls[i], parse_arg, g) # << >>
                   /\ BadNumber(Group(controls[i], parse_arg, g)))
        => IF Returned
           THEN \A i \in 1..Len(stds) :
                    LET w == parse_ret.data.sample_data
                                 .standard_curve_wells[i]
                    IN  /\ w.concentration =
                               FloatElseRaw(Group(stds[i], parse_arg, 2))
                        /\ w.fluorescence_value =
                               FloatElseRaw(Group(stds[i], parse_arg, 3))
                        /\ w.reduced_value =
                               FloatElseRaw(Group(stds[i], parse_arg, 4))
           ELSE FALSE

\* C7: each data row of the standards table is zipped against the
\* headers: the row dict has the headers that have a cell at their
\* position as keys (extra cells ignored, uncovered headers missing), the
\* row is appended and the parse completes.
C7_RowsZippedPositionally ==
    LET lines == table_lines(parse_arg)
        headers == Cells(lines[1])
        rest == From2(lines)
    IN  (Called /\ Search(Re_table, parse_arg).ok)
        => IF Returned
           THEN /\ Len(parse_ret.data.standards_table.data) = Len(rest)
                /\ \A i \in 1..Len(rest) :
                       DOMAIN parse_ret.data.standards_table.data[i] =
                           {headers[j] :
                              j \in 1..Min(Len(headers),
                                           Len(Cells(rest[i])))}
           ELSE FALSE

\* whether the match m ended in "Date: No Data"
NoDataBranch(m) ==
    /\ m.end - m.start >= Len(S_no_data)
    /\ SubSeq(parse_arg, m.end - Len(S_no_data), m.end - 1) = S_no_data

\* C8: the well record of a control line matched through 'Date: No Data'
\* has the well, the trimmed sample type, and None for
\* fluorescence_value, reduced_value and date; the record of a line
\* matched with a reading has all three.
C8_NoDataFieldsAbsent ==
    Returned =>
        LET ms == FindAll(Re_controls, parse_arg)
            ws == parse_ret.data.sample_data.control_and_sample_wells
        IN  /\ Len(ws) = Len(ms)
            /\ \A i \in 1..Len(ms) :
                   IF NoDataBranch(ms[i])
                   THEN /\ ws[i].well =
                               PyStr(SubSeq(parse_arg, ms[i].start + 4,
                                            ms[i].start + 5))
                        /\ ws[i].sample_type =
                               PyStr(Strip(SubSeq(parse_arg,
                                    ms[i].start + 10,
                                    ms[i].end - 1 - Len(S_sep)
                                        - Len(S_no_data))))
                        /\ ws[i].fluorescence_value = None
                        /\ ws[i].reduced_value = None
                        /\ ws[i].date = None
                   ELSE /\ ws[i].fluorescence_value.ty = "float"
                        /\ ws[i].reduced_value.ty = "float"
                        /\ ws[i].date.ty = "str"

\* a record with a well of each branch
C8_Witness ==
    /\ Returned
    /\ \E w \in {parse_ret.data.sample_data.control_and_sample_wells[i] :
                   i \in 1..Len(parse_ret.data.sample_data
                                    .control_and_sample_wells)} :
           /\ w.fluorescence_value = None
           /\ w.date = None
           /\ w.sample_type = PyStr(<<"C", "t", "l">>)
    /\ \E w \in {parse_ret.data.sample_data.control_and_sample_wells[i] :
                   i \in 1..Len(parse_ret.data.sample_data
                                    .control_and_sample_wells)} :
           w.fluorescence_value.ty = "float"

\* the positions after the page loop
AfterLoop == {"summary", "parse", "save_json", "save_txt", "save_csv"}

\* C9 as claimed: the PDF is opened exactly once in every run, and the
\* handle is closed after the last page and before summary generation,
\* parsing and the writers.
C9_OpenedOnce ==
    /\ (pc = "done" /\ ret # "raised") => open_calls = 1
    /\ (pc \in AfterLoop \/ ret = "results") =>
           doc = "closed" /\ page_num = num_pages

\* C9 amended: fitz.open is called once by extract_pdf_with_vision and,
\* when that call succeeds, once more by extract_metadata: twice in every
\* run that gets past the first open; the handle of the first call is
\* closed after the last page and before summary generation, parsing and
\* the writers.
C9_OpenedTwice ==
    /\ open_calls <= 2
    /\ (pc = "done" /\ ret # "raised") =>
           open_calls = (IF exc = "open" THEN 1 ELSE 2)
    /\ doc # "unopened" => open_calls >= 1
    /\ meta_doc # "unopened" => open_calls = 2
    /\ (pc \in AfterLoop \/ ret = "results") =>
           doc = "closed" /\ page_num = num_pages /\ open_calls = 2
    /\ pc \in {"loop", "vision"} => doc = "open"

\* a complete run: two opens, the handle closed
C9_Witness ==
    ret = "results" /\ open_calls = 2 /\ doc = "closed" /\ num_pages >= 1

\* C10 as claimed: when None is returned none of the three files has been
\* written, and when a result is returned all three have, whichever step
\* raised.
C10_AllOrNothing ==
    /\ ret = "None" => NoFilesWritten
    /\ ret = "results" => AllFilesWritten

\* C10 amended: a returned result means all three files are written; None
\* after an exception before the writers (open, render, parse) means none
\* is; None after an exception in a writer leaves the files of the
\* writers before it (JSON, then TXT, then CSV) written, its own file
\* absent or incomplete and the later ones absent.
C10_WritersInOrder ==
    /\ ret = "results" => AllFilesWritten
    /\ (ret = "None" /\ exc \in {"open", "render", "parse"}) =>
           NoFilesWritten
    /\ exc = "save_json" =>
           /\ ret = "None"
           /\ files.json \in Broken
           /\ files.txt = "absent" /\ files.csv = "absent"
    /\ exc = "save_txt" =>
           /\ ret = "None"
           /\ files.json = "complete"
           /\ files.txt \in Broken
           /\ files.csv = "absent"
    /\ exc = "save_csv" =>
           /\ ret = "None"
           /\ files.json = "complete" /\ files.txt = "complete"
           /\ files.csv \in Broken
    /\ ret = "running" =>
           /\ files.json = "complete" => pc \in {"save_txt", "save_csv"}
           /\ files.txt = "complete" => pc = "save_csv"
           /\ files.csv = "absent"

\* None returned with the JSON file written: the text writer raised
C10_Witness ==
    ret = "None" /\ exc = "save_txt" /\ files.json = "complete"

=============================================================================
